---- MODULE Spec2Model ----
(***************************************************************************)
(* State-machine model of my_scraper: the breadth-first crawler of         *)
(* scraper.py (crawl_website) and the page aggregator of normalize_data.py *)
(* (aggregate_pages, add_sub_page, is_clean_text).                         *)
(*                                                                         *)
(* Python strings are modelled as sequences of one-character strings, so   *)
(* that str.startswith, str.split, str.strip and the comparison of strings *)
(* are computed character by character as Python computes them.            *)
(***************************************************************************)
EXTENDS Integers, Sequences, FiniteSets, TLC

(***************************************************************************)
(* Bounds of the model.                                                    *)
(***************************************************************************)
MaxPagesBound == 3      \* max_pages ranges over 0..MaxPagesBound
MaxLinks == 2           \* a fetched page carries at most MaxLinks links
MaxInput == 3           \* aggregate_pages folds at most MaxInput page records

(***************************************************************************)
(* Strings.                                                                *)
(***************************************************************************)
\* Python None: a one-element sequence whose element is no character, so that
\* it differs from every string
None == <<"<None>">>

\* str.startswith(prefix)
StartsWith(s, prefix) ==
    /\ Len(prefix) <= Len(s)
    /\ SubSeq(s, 1, Len(prefix)) = prefix

\* one decimal digit as a character
DigitChar(d) ==
    CASE d = 0 -> "0" [] d = 1 -> "1" [] d = 2 -> "2" [] d = 3 -> "3"
      [] d = 4 -> "4" [] d = 5 -> "5" [] d = 6 -> "6" [] d = 7 -> "7"
      [] d = 8 -> "8" [] d = 9 -> "9"

\* str(n) of a non-negative int, as the f-string renders it
RECURSIVE IntToStr(_)
IntToStr(n) ==
    IF n < 10 THEN <<DigitChar(n)>>
    ELSE Append(IntToStr(n \div 10), DigitChar(n % 10))

\* the elements of a sequence
Range(s) == {s[k] : k \in 1..Len(s)}

\* ord(c) of the characters that identifiers and timestamps are written with
Ord(c) ==
    CASE c = "-" -> 45 [] c = "0" -> 48 [] c = "1" -> 49 [] c = "2" -> 50
      [] c = "3" -> 51 [] c = "4" -> 52 [] c = "5" -> 53 [] c = "6" -> 54
      [] c = "7" -> 55 [] c = "8" -> 56 [] c = "9" -> 57 [] c = ":" -> 58
      [] c = "T" -> 84 [] c = "Z" -> 90

\* a < b on Python strings: by code point, a proper prefix is smaller
RECURSIVE StrLess(_, _)
StrLess(a, b) ==
    IF b = <<>> THEN FALSE
    ELSE IF a = <<>> THEN TRUE
    ELSE IF Ord(Head(a)) # Ord(Head(b)) THEN Ord(Head(a)) < Ord(Head(b))
    ELSE StrLess(Tail(a), Tail(b))

\* str.isspace of one code point
IsSpace(c) ==
    \/ c \in 9..13 \/ c \in 28..32 \/ c \in {133, 160, 5760}
    \/ c \in 8192..8202 \/ c \in {8232, 8233, 8239, 8287, 12288}

\* str.strip() of a text given as code points
RECURSIVE LStrip(_)
LStrip(s) == IF s # <<>> /\ IsSpace(Head(s)) THEN LStrip(Tail(s)) ELSE s
RECURSIVE RStrip(_)
RStrip(s) ==
    IF s # <<>> /\ IsSpace(s[Len(s)]) THEN RStrip(SubSeq(s, 1, Len(s) - 1))
    ELSE s
Strip(s) == RStrip(LStrip(s))

(***************************************************************************)
(* The crawler's inputs.  URLs stand for                                   *)
(*   XA  = "https://x.test/a"      XAB = "https://x.test/a/b"              *)
(*   XAc = "https://x.test/ac"     YC  = "https://y.test/c"                *)
(* with the scheme and host shortened to one letter.                       *)
(***************************************************************************)
XA  == <<"x", "/", "a">>
XAB == <<"x", "/", "a", "/", "b">>
XAc == <<"x", "/", "a", "c">>
YC  == <<"y", "/", "c">>
SiteUrls == {XA, XAB, XAc}
Urls == SiteUrls \cup {YC}
SeedUrls == {XA, XAB}
SiteIds == {<<"1">>, <<"t", "-", "i">>}

\* The link lists a page can carry: every list of up to MaxLinks links to
\* pages of the host x (of which x/a and x/ac are outside the seed x/a/b),
\* and three lists with a link to the other host.
LinkLists ==
    UNION {[1..n -> SiteUrls] : n \in 0..MaxLinks}
    \cup {<<YC>>, <<XAB, YC>>, <<YC, XAc>>}

\* A fetched document, as far as parse_page looks at it: whether it has a
\* <title> tag ("absent"), one with a string ("text") or one without a
\* string, such as <title></title> ("nostring"), and its absolute http links.
\* Documents whose title has no text are kept to at most one link.
Htmls == {d \in [body : {"markup"}, titleTag : {"absent", "text", "nostring"},
                 links : LinkLists] :
            d.titleTag = "text" \/ Len(d.links) <= 1}

\* fetch_page's other results: None after a request error, and the empty
\* string of a response without body; both are falsy
NoHtml == [body |-> "none", titleTag |-> "absent", links |-> <<>>]
EmptyHtml == [body |-> "empty", titleTag |-> "absent", links |-> <<>>]

VARIABLES
    site_id,        \* crawl_website argument
    base_url,       \* crawl_website argument
    max_pages,      \* crawl_website argument
    to_visit,       \* the frontier, a list of URLs
    visited,        \* the set of visited URLs
    results,        \* the list of page records
    current_url,    \* local: the URL popped last
    html,           \* local: what fetch_page returned last
    fetched,        \* the calls of fetch_page so far, in order
    enqueued,       \* the URLs put on the frontier so far, in order
    pc,             \* "loop", "done" (returned), "raised" or "idle"
    raw_pages,      \* aggregate_pages: the page records folded so far
    aggregated,     \* aggregate_pages: the dict, in insertion order
    apc,            \* aggregate_pages: "fold", "done" (returned) or "idle"
    sites,          \* main: the entries loaded from urls.json
    site_index,     \* main: the number of entries the for loop has consumed
    all_results,    \* main: the page records collected so far
    crawled,        \* main: what crawl_website returned, one item per call
    mpc,            \* main: "loop", "crawl", "done" (output written), "idle"
    jp_pages,       \* bilingual aggregate_pages: the records folded so far
    jp_aggregated,  \* bilingual aggregate_pages: the dict, in insertion order
    current_id,     \* bilingual aggregate_pages: the next school_id
    jpc,            \* bilingual: "fold", "done", "raised" (KeyError), "idle"
    schools,        \* update_schools_with_details: the list in memory
    school_index,   \* update_schools_with_details: schools consumed so far
    attempts,       \* get_school_details: the outcome of each attempt of
                    \* the current call, "error" or "ok"
    retry_delay,    \* get_school_details: the local retry_delay
    slept,          \* get_school_details: the sleeps of the current call
    details,        \* what get_school_details returned last
    saved,          \* the contents of japanese_schools_output.json
    dpc,            \* "loop", "fetch", "done", "raised" or "idle"
    text,           \* is_clean_text: the argument
    verdict,        \* is_clean_text: "unset", or the value returned
    kept            \* add_sub_page on a new site: "unset", or whether the
                    \* text became a sub-page

crawlVars == <<site_id, base_url, max_pages, to_visit, visited, results,
               current_url, html, fetched, enqueued, pc>>

aggVars == <<raw_pages, aggregated, apc>>

mainVars == <<sites, site_index, all_results, crawled, mpc>>

jpVars == <<jp_pages, jp_aggregated, current_id, jpc>>

detailVars ==
    <<schools, school_index, attempts, retry_delay, slept, details, saved, dpc>>

cleanVars == <<text, verdict, kept>>

vars == <<crawlVars, aggVars, mainVars, jpVars, detailVars, cleanVars>>

\* the variables crawl_website does not touch
notCrawlVars == <<aggVars, mainVars, jpVars, detailVars, cleanVars>>

\* the variables aggregate_pages of normalize_data.py does not touch
notAggVars == <<crawlVars, mainVars, jpVars, detailVars, cleanVars>>

\* Each program runs on its own: while one runs, the variables of the others
\* rest at the values below.
IdleCrawl ==
    /\ site_id = <<>> /\ base_url = <<>> /\ max_pages = 0
    /\ to_visit = <<>> /\ visited = {} /\ results = <<>>
    /\ current_url = None /\ html = NoHtml /\ fetched = <<>>
    /\ enqueued = <<>>
    /\ pc = "idle"

IdleAgg == raw_pages = <<>> /\ aggregated = <<>> /\ apc = "idle"

IdleMain ==
    /\ sites = <<>> /\ site_index = 0 /\ all_results = <<>>
    /\ crawled = <<>> /\ mpc = "idle"

IdleJp ==
    /\ jp_pages = <<>> /\ jp_aggregated = <<>> /\ current_id = 0
    /\ jpc = "idle"

IdleDetails ==
    /\ schools = <<>> /\ school_index = 0 /\ attempts = <<>>
    /\ retry_delay = 0 /\ slept = <<>> /\ details = None /\ saved = <<>>
    /\ dpc = "idle"

IdleClean == text = <<>> /\ verdict = "unset" /\ kept = "unset"

(***************************************************************************)
(* scraper.py                                                              *)
(***************************************************************************)
\* parse_page: the title of the record
PageTitle(doc) == IF doc.titleTag = "absent" THEN None ELSE <<"T">>

\* parse_page raises AttributeError when soup.title.string is None
ParseRaises(doc) == doc.titleTag = "nostring"

\* PageId that counts from 0
PageIdFromZero(sid, n) == sid \o <<"-">> \o IntToStr(n - 1)

\* the "id" given to a page record
PageId(sid, n) == sid \o <<"-">> \o IntToStr(n)

\* Enqueue without the scoping to the seed URL
EnqueueUnscoped(link, base, vis) == link \notin vis

\* the enqueue filter: link.startswith(base_url) and link not in visited
Enqueue(link, base, vis) == StartsWith(link, base) /\ link \notin vis

\* the record crawl_website appends for a parsed page
PageRecord(sid, url, doc, vis) ==
    [id |-> PageId(sid, Cardinality(vis)), url |-> url,
     title |-> PageTitle(doc), links |-> doc.links]

\* LoopCond letting one page too many through
LoopCondOffByOne == to_visit # <<>> /\ Cardinality(visited) <= max_pages

\* LoopCond stopping one page early
LoopCondEarly == to_visit # <<>> /\ Cardinality(visited) + 1 < max_pages

\* while to_visit and len(visited) < max_pages
LoopCond == to_visit # <<>> /\ Cardinality(visited) < max_pages

InitCrawl ==
    /\ site_id \in SiteIds
    /\ base_url \in SeedUrls
    /\ max_pages \in 0..MaxPagesBound
    /\ to_visit = <<base_url>>
    /\ visited = {}
    /\ results = <<>>
    /\ current_url = None
    /\ html = NoHtml
    /\ fetched = <<>>
    /\ enqueued = <<base_url>>
    /\ pc = "loop"
    /\ IdleAgg /\ IdleMain /\ IdleJp /\ IdleDetails /\ IdleClean

\* the popped URL is already visited: continue
SkipVisited ==
    /\ pc = "loop" /\ LoopCond
    /\ Head(to_visit) \in visited
    /\ current_url' = Head(to_visit)
    /\ to_visit' = Tail(to_visit)
    /\ UNCHANGED <<site_id, base_url, max_pages, enqueued, visited, results,
                   html, fetched, pc, notCrawlVars>>

\* FetchFailed that leaves the URL out of visited
FetchFailedUnmarked ==
    /\ pc = "loop" /\ LoopCond
    /\ Head(to_visit) \notin visited
    /\ html' \in {NoHtml, EmptyHtml}
    /\ current_url' = Head(to_visit)
    /\ to_visit' = Tail(to_visit)
    /\ fetched' = Append(fetched, Head(to_visit))
    /\ UNCHANGED <<site_id, base_url, max_pages, enqueued, visited, results,
                   pc, notCrawlVars>>

\* fetch_page returns None (request error) or an empty body: continue
FetchFailed ==
    /\ pc = "loop" /\ LoopCond
    /\ Head(to_visit) \notin visited
    /\ html' \in {NoHtml, EmptyHtml}
    /\ current_url' = Head(to_visit)
    /\ to_visit' = Tail(to_visit)
    /\ visited' = visited \cup {Head(to_visit)}
    /\ fetched' = Append(fetched, Head(to_visit))
    /\ UNCHANGED <<site_id, base_url, max_pages, enqueued, results, pc,
                   notCrawlVars>>

\* fetch_page returns one of the documents docs and parse_page raises on its
\* title
ParseFailedOf(docs) ==
    /\ pc = "loop" /\ LoopCond
    /\ Head(to_visit) \notin visited
    /\ \E doc \in docs :
        /\ ParseRaises(doc)
        /\ html' = doc
    /\ current_url' = Head(to_visit)
    /\ to_visit' = Tail(to_visit)
    /\ visited' = visited \cup {Head(to_visit)}
    /\ fetched' = Append(fetched, Head(to_visit))
    /\ pc' = "raised"
    /\ UNCHANGED <<site_id, base_url, max_pages, enqueued, results,
                   notCrawlVars>>

ParseFailed == ParseFailedOf(Htmls)

\* the sequence in reverse order
Reverse(s) == [k \in 1..Len(s) |-> s[Len(s) + 1 - k]]

\* VisitPageOf with the frontier as a stack: to_visit.insert(0, link)
VisitPageOfStack(docs) ==
    /\ pc = "loop" /\ LoopCond
    /\ Head(to_visit) \notin visited
    /\ current_url' = Head(to_visit)
    /\ visited' = visited \cup {Head(to_visit)}
    /\ fetched' = Append(fetched, Head(to_visit))
    /\ \E doc \in docs :
        /\ ~ParseRaises(doc)
        /\ html' = doc
        /\ results' = Append(results,
               PageRecord(site_id, Head(to_visit), doc, visited'))
        /\ to_visit' = Reverse(SelectSeq(doc.links,
                           LAMBDA l : Enqueue(l, base_url, visited')))
                       \o Tail(to_visit)
        /\ enqueued' = enqueued \o
               SelectSeq(doc.links,
                         LAMBDA l : Enqueue(l, base_url, visited'))
    /\ UNCHANGED <<site_id, base_url, max_pages, pc, notCrawlVars>>

\* fetch_page returns one of the documents docs: record the page, enqueue its
\* links
VisitPageOf(docs) ==
    /\ pc = "loop" /\ LoopCond
    /\ Head(to_visit) \notin visited
    /\ current_url' = Head(to_visit)
    /\ visited' = visited \cup {Head(to_visit)}
    /\ fetched' = Append(fetched, Head(to_visit))
    /\ \E doc \in docs :
        /\ ~ParseRaises(doc)
        /\ html' = doc
        /\ results' = Append(results,
               PageRecord(site_id, Head(to_visit), doc, visited'))
        /\ to_visit' = Tail(to_visit) \o
               SelectSeq(doc.links,
                         LAMBDA l : Enqueue(l, base_url, visited'))
        /\ enqueued' = enqueued \o
               SelectSeq(doc.links,
                         LAMBDA l : Enqueue(l, base_url, visited'))
    /\ UNCHANGED <<site_id, base_url, max_pages, pc, notCrawlVars>>

VisitPage == VisitPageOf(Htmls)

\* the loop condition is false: return results
Return ==
    /\ pc = "loop" /\ ~LoopCond
    /\ pc' = "done"
    /\ UNCHANGED <<site_id, base_url, max_pages, enqueued, to_visit, visited,
                   results, current_url, html, fetched, notCrawlVars>>

NextCrawl == SkipVisited \/ FetchFailed \/ ParseFailed \/ VisitPage \/ Return

Spec == InitCrawl /\ [][NextCrawl]_vars

\* the interpreter always runs the next iteration of the loop
FairSpec == Spec /\ WF_vars(NextCrawl)

(***************************************************************************)
(* main.py: the crawl driver.  An entry of urls.json is a function from    *)
(* the keys it has to their values.                                        *)
(***************************************************************************)
\* the longest list of entries
MaxSites == 3

\* crawl_website(site_id, url, max_pages=10)
MainMaxPages == 10

\* The entries: three with an id and a url, one without id, one without url
\* and one whose id is the empty string.
MainEntries ==
    {[id |-> <<"1">>, url |-> XA],
     [id |-> <<"t", "-", "i">>, url |-> XA],
     [id |-> <<"t">>, url |-> XAB],
     [url |-> XA],
     [id |-> <<"1">>],
     [id |-> <<>>, url |-> XA]}

\* The documents the sites of the driver serve: a page without links, a page
\* linking twice to x/a/b, and a page whose title has no string.
MainHtmls ==
    {[body |-> "markup", titleTag |-> "text", links |-> <<>>],
     [body |-> "markup", titleTag |-> "text", links |-> <<XAB, XAB>>],
     [body |-> "markup", titleTag |-> "nostring", links |-> <<>>]}

\* site_info.get(key): None when the key is missing
EntryGet(entry, key) == IF key \in DOMAIN entry THEN entry[key] ELSE None

\* not site_id or not url: a missing or empty id or url
EntrySkipped(entry) ==
    \/ EntryGet(entry, "id") \in {None, <<>>}
    \/ EntryGet(entry, "url") \in {None, <<>>}

InitMain ==
    /\ sites \in UNION {[1..n -> MainEntries] : n \in 0..MaxSites}
    /\ site_index = 0
    /\ all_results = <<>>
    /\ crawled = <<>>
    /\ mpc = "loop"
    /\ IdleCrawl /\ IdleAgg /\ IdleJp /\ IdleDetails /\ IdleClean

\* SkipEntry that leaves the loop
SkipEntryBreaks ==
    /\ mpc = "loop" /\ site_index < Len(sites)
    /\ EntrySkipped(sites[site_index + 1])
    /\ site_index' = Len(sites)
    /\ UNCHANGED <<sites, all_results, crawled, mpc, crawlVars, aggVars,
                   jpVars, detailVars, cleanVars>>

\* an entry without id or url: print and continue
SkipEntry ==
    /\ mpc = "loop" /\ site_index < Len(sites)
    /\ EntrySkipped(sites[site_index + 1])
    /\ site_index' = site_index + 1
    /\ UNCHANGED <<sites, all_results, crawled, mpc, crawlVars, aggVars,
                   jpVars, detailVars, cleanVars>>

\* the call crawl_website(site_id, url, max_pages=10)
CallCrawl ==
    /\ mpc = "loop" /\ site_index < Len(sites)
    /\ ~EntrySkipped(sites[site_index + 1])
    /\ site_id' = sites[site_index + 1].id
    /\ base_url' = sites[site_index + 1].url
    /\ max_pages' = MainMaxPages
    /\ to_visit' = <<sites[site_index + 1].url>>
    /\ visited' = {}
    /\ results' = <<>>
    /\ current_url' = None
    /\ html' = NoHtml
    /\ fetched' = <<>>
    /\ enqueued' = <<sites[site_index + 1].url>>
    /\ pc' = "loop"
    /\ mpc' = "crawl"
    /\ UNCHANGED <<sites, site_index, all_results, crawled, aggVars, jpVars,
                   detailVars, cleanVars>>

\* crawl_website has returned: all_results.extend(site_pages_data)
ExtendResults ==
    /\ mpc = "crawl" /\ pc = "done"
    /\ all_results' = all_results \o results
    /\ crawled' = Append(crawled, [entry |-> site_index + 1,
                                    pages |-> results])
    /\ site_index' = site_index + 1
    /\ mpc' = "loop"
    /\ pc' = "idle"
    /\ UNCHANGED <<sites, site_id, base_url, max_pages, to_visit, visited,
                   enqueued,
                   results, current_url, html, fetched, aggVars, jpVars,
                   detailVars, cleanVars>>

\* the list is exhausted: all_results is written to scraped_output.json
WriteOutput ==
    /\ mpc = "loop" /\ site_index = Len(sites)
    /\ mpc' = "done"
    /\ UNCHANGED <<sites, site_index, all_results, crawled, crawlVars,
                   aggVars, jpVars, detailVars, cleanVars>>

MainParseFailed == ParseFailedOf(MainHtmls)

MainVisitPage == VisitPageOf(MainHtmls)

NextMain ==
    \/ SkipEntry \/ CallCrawl \/ ExtendResults \/ WriteOutput
    \/ SkipVisited \/ FetchFailed \/ MainParseFailed \/ MainVisitPage
    \/ Return

SpecMain == InitMain /\ [][NextMain]_vars

(***************************************************************************)
(* normalize_data.py.  A page record is a function from the keys it has to *)
(* their values, so that page.get(key, default) is computed as Python      *)
(* computes it.  Identifiers, URLs, titles and timestamps are sequences of *)
(* characters; a text body ("data") is a sequence of code points, which is *)
(* what is_clean_text and str.strip look at.                               *)
(***************************************************************************)
\* dict.get(key, default)
Get(page, key, default) ==
    IF key \in DOMAIN page THEN page[key] ELSE default

Untitled == <<"U", "n", "t", "i", "t", "l", "e", "d">>

\* page_id.split("-")[0]
RECURSIVE SplitHead(_)
SplitHead(s) ==
    IF s = <<>> \/ Head(s) = "-" THEN <<>>
    ELSE <<Head(s)>> \o SplitHead(Tail(s))

\* site_id = page_id.split("-")[0] if "-" in page_id else page_id
SiteKey(page_id) ==
    IF "-" \in Range(page_id) THEN SplitHead(page_id) ELSE page_id

\* valid_char_pattern: Hiragana, Katakana, Kanji, half/full-width forms,
\* printable ASCII, and \n \r \t
ValidChar(c) ==
    \/ c \in 12352..12447 \/ c \in 12448..12543 \/ c \in 19968..40959
    \/ c \in 65280..65519 \/ c \in 32..126 \/ c \in {10, 13, 9}

\* RatioOk with a strict comparison
RatioOkStrict(invalid_chars, total_chars) == 10 * invalid_chars < total_chars

\* RatioOk with a threshold of 20%
RatioOkLoose(invalid_chars, total_chars) == 5 * invalid_chars <= total_chars

\* invalid_chars / total_chars <= 0.1, in integers
RatioOk(invalid_chars, total_chars) == 10 * invalid_chars <= total_chars

is_clean_text(data) ==
    IF data = <<>> THEN FALSE
    ELSE LET total_chars == Len(data)
             valid_chars ==
                 Cardinality({k \in 1..Len(data) : ValidChar(data[k])})
             invalid_chars == total_chars - valid_chars
         IN  RatioOk(invalid_chars, total_chars)

\* IsDuplicate that finds nothing
IsDuplicateNever(sub_pages, page_data) == FALSE

\* the exact-duplicate check of add_sub_page
IsDuplicate(sub_pages, page_data) ==
    \E k \in 1..Len(sub_pages) : sub_pages[k].data = page_data

\* add_sub_page that keeps the newest entry only
add_sub_page_newest(site_obj, page_title, page_data) ==
    IF Strip(page_data) = <<>> THEN site_obj
    ELSE IF ~is_clean_text(page_data) THEN site_obj
    ELSE IF IsDuplicate(site_obj.content.sub_pages, page_data) THEN site_obj
    ELSE [site_obj EXCEPT !.content.sub_pages =
              <<[title |-> page_title, data |-> page_data]>>]

\* add_sub_page that puts the new entry first
add_sub_page_first(site_obj, page_title, page_data) ==
    IF Strip(page_data) = <<>> THEN site_obj
    ELSE IF ~is_clean_text(page_data) THEN site_obj
    ELSE IF IsDuplicate(site_obj.content.sub_pages, page_data) THEN site_obj
    ELSE [site_obj EXCEPT !.content.sub_pages =
              <<[title |-> page_title, data |-> page_data]>> \o @]

add_sub_page(site_obj, page_title, page_data) ==
    IF Strip(page_data) = <<>> THEN site_obj
    ELSE IF ~is_clean_text(page_data) THEN site_obj
    ELSE IF IsDuplicate(site_obj.content.sub_pages, page_data) THEN site_obj
    ELSE [site_obj EXCEPT !.content.sub_pages =
              Append(@, [title |-> page_title, data |-> page_data])]

\* the structure aggregate_pages creates for a site_id it has not seen; the
\* structured_data template, which this aggregator never changes, is left out
NewSite(site_key, page) ==
    [source |-> [id |-> site_key,
                 url |-> Get(page, "url", <<>>),
                 title |-> Get(page, "title", <<>>),
                 scrapedAt |-> Get(page, "scrapedAt", <<>>)],
     content |-> [sub_pages |-> <<>>]]

\* Earlier with the comparison turned round: the latest wins
Later(current_scraped_at, existing_scraped_at) ==
    /\ current_scraped_at # <<>>
    /\ \/ existing_scraped_at = <<>>
       \/ StrLess(existing_scraped_at, current_scraped_at)

\* the test that decides whether the page replaces the site's source
Earlier(current_scraped_at, existing_scraped_at) ==
    /\ current_scraped_at # <<>>
    /\ \/ existing_scraped_at = <<>>
       \/ StrLess(current_scraped_at, existing_scraped_at)

\* MergeSource that takes the timestamp and leaves url and title
MergeSourceStampOnly(site_obj, page) ==
    IF Earlier(Get(page, "scrapedAt", <<>>), site_obj.source.scrapedAt)
    THEN [site_obj EXCEPT !.source.scrapedAt = Get(page, "scrapedAt", <<>>)]
    ELSE site_obj

\* merge 'source' fields: keep the earliest scrapedAt
MergeSource(site_obj, page) ==
    IF Earlier(Get(page, "scrapedAt", <<>>), site_obj.source.scrapedAt)
    THEN [site_obj EXCEPT !.source.url = Get(page, "url", <<>>),
                          !.source.title = Get(page, "title", <<>>),
                          !.source.scrapedAt = Get(page, "scrapedAt", <<>>)]
    ELSE site_obj

\* HasKey that never finds the key
HasKeyNever(agg, site_key) == FALSE

\* the dict as a list in insertion order: is site_key a key, and where
HasKey(agg, site_key) ==
    \E k \in 1..Len(agg) : agg[k].source.id = site_key
KeyIndex(agg, site_key) ==
    CHOOSE k \in 1..Len(agg) : agg[k].source.id = site_key

\* one iteration of the loop of aggregate_pages
FoldPage(agg, page) ==
    LET site_key == SiteKey(Get(page, "id", <<>>))
        agg1 == IF HasKey(agg, site_key) THEN agg
                ELSE Append(agg, NewSite(site_key, page))
        k == KeyIndex(agg1, site_key)
        merged == MergeSource(agg1[k], page)
    IN  [agg1 EXCEPT ![k] = add_sub_page(merged,
                                         Get(page, "title", Untitled),
                                         Get(page, "data", <<>>))]

\* aggregate_pages(raw_pages), continued from the dict agg
RECURSIVE AggregateFrom(_, _)
AggregateFrom(agg, pages) ==
    IF pages = <<>> THEN agg
    ELSE AggregateFrom(FoldPage(agg, Head(pages)), Tail(pages))

aggregate_pages(pages) == AggregateFrom(<<>>, pages)

(***************************************************************************)
(* The page records the aggregator is run on.                              *)
(***************************************************************************)
I11 == <<"1", "-", "1">>
I12 == <<"1", "-", "2">>
I2  == <<"2">>
\* the URL of the page with the given id
UrlOf(id) == <<"x", "/">> \o id

\* text bodies: two clean ones, a whitespace-only one, one with 1 invalid
\* character in 10 (clean), one with 1 in 9 (not clean), and the empty one
CleanA == <<97, 98>>
CleanB == <<12354, 19968>>
Blank  == <<32, 10>>
Edge10 == <<97, 97, 97, 97, 97, 97, 97, 97, 97, 233>>
Dirty9 == <<97, 97, 97, 97, 97, 97, 97, 97, 233>>
Bodies == {CleanA, CleanB, Blank, Edge10, Dirty9, <<>>}

Stamps == {<<>>, <<"1", "0">>, <<"2">>}

\* pages of three ids and three timestamps with one body
KeyPages ==
    {[id |-> i, url |-> UrlOf(i), title |-> <<"T">>, data |-> CleanA,
      scrapedAt |-> t] : i \in {I11, I12, I2}, t \in Stamps}
\* pages of one id with the other bodies and the title None, and pages
\* without title
BodyPages ==
    {[id |-> I11, url |-> UrlOf(I11), title |-> None, data |-> d,
      scrapedAt |-> <<"1", "0">>] : d \in Bodies \ {CleanA}}
    \cup
    {[id |-> I11, url |-> UrlOf(I11), data |-> d,
      scrapedAt |-> <<"1", "0">>] : d \in {CleanA, CleanB}}
\* records that lack keys
BarePages == {[title |-> <<"T">>, data |-> CleanB], [id |-> I2]}

Pages == KeyPages \cup BodyPages \cup BarePages

InitAgg ==
    /\ raw_pages = <<>>
    /\ aggregated = <<>>
    /\ apc = "fold"
    /\ IdleCrawl /\ IdleMain /\ IdleJp /\ IdleDetails /\ IdleClean

\* the loop body, on the next page record of the input
Fold ==
    /\ apc = "fold"
    /\ Len(raw_pages) < MaxInput
    /\ \E page \in Pages :
        /\ raw_pages' = Append(raw_pages, page)
        /\ aggregated' = FoldPage(aggregated, page)
    /\ UNCHANGED <<apc, notAggVars>>

\* the input is exhausted: return aggregated
Finish ==
    /\ apc = "fold"
    /\ apc' = "done"
    /\ UNCHANGED <<raw_pages, aggregated, notAggVars>>

NextAgg == Fold \/ Finish

SpecAgg == InitAgg /\ [][NextAgg]_vars

(***************************************************************************)
(* is_clean_text and add_sub_page on their own, on every text up to a      *)
(* length over a valid and an invalid character.                           *)
(***************************************************************************)
\* the longest text
MaxText == 10

\* "a" and U+00E9, which is outside the allowed set
TextChars == {97, 233}

Texts == UNION {[1..n -> TextChars] : n \in 0..MaxText}

\* Python's str(bool)
BoolStr(b) == IF b THEN "True" ELSE "False"

InitClean ==
    /\ text \in Texts
    /\ verdict = "unset"
    /\ kept = "unset"
    /\ IdleCrawl /\ IdleAgg /\ IdleMain /\ IdleJp /\ IdleDetails

\* the call is_clean_text(text)
CheckClean ==
    /\ verdict = "unset"
    /\ verdict' = BoolStr(is_clean_text(text))
    /\ UNCHANGED <<text, kept, crawlVars, aggVars, mainVars, jpVars,
                   detailVars>>

\* the call add_sub_page(site_obj, "T", text) on a site without sub-pages
AddText ==
    /\ kept = "unset"
    /\ kept' = BoolStr(
           add_sub_page([content |-> [sub_pages |-> <<>>]], <<"T">>,
                        text).content.sub_pages
               = <<[title |-> <<"T">>, data |-> text]>>)
    /\ UNCHANGED <<text, verdict, crawlVars, aggVars, mainVars, jpVars,
                   detailVars>>

NextClean == CheckClean \/ AddText

SpecClean == InitClean /\ [][NextClean]_vars

(***************************************************************************)
(* normalize_japanese_schools_ouput.py: the bilingual aggregator.  A       *)
(* school record of the input is a function from the keys it has to their  *)
(* values; names, fees and URLs are sequences of characters, a staff       *)
(* member's name and role and a text body are sequences of code points, a  *)
(* details dict is the sequence of its keys and values.  The aggregated    *)
(* record is a function from its keys to their values; of the keys of the  *)
(* template that the loop never writes, it keeps the staff lists only.     *)
(***************************************************************************)
\* url.split("/")[-1]
RECURSIVE SplitLast(_)
SplitLast(s) ==
    IF s = <<>> \/ s[Len(s)] = "/" THEN <<>>
    ELSE Append(SplitLast(SubSeq(s, 1, Len(s) - 1)), s[Len(s)])

\* site_id = url.split("/")[-1] if url else None
JpSiteId(page) ==
    LET url == Get(page, "url", <<>>)
    IN  IF url # <<>> THEN SplitLast(url) ELSE None

\* if not site_id
JpSkipped(page) == JpSiteId(page) \in {None, <<>>}

\* The assignments of lines 186-203, as pairs <<key written, key read>>.
FieldMap ==
    {<<"name_jp", "name">>, <<"description_jp", "description">>,
     <<"curriculum_jp", "curriculum">>, <<"language_jp", "language">>,
     <<"ages_jp", "ages">>, <<"fees_jp", "fees">>,
     <<"location_jp", "location">>, <<"url_jp", "url">>,
     <<"name_en", "name_en">>, <<"description_en", "description_en">>,
     <<"curriculum_en", "curriculum_en">>, <<"language_en", "language_en">>,
     <<"ages_en", "ages_en">>, <<"fees_en", "fees_en">>,
     <<"location_en", "location_en">>, <<"url_en", "url_en">>}

\* the keys of an aggregated record
JpKeys ==
    {"school_id", "site_id", "structured_data", "staff_staff_list_en",
     "staff_staff_list_jp"} \cup {m[1] : m \in FieldMap}

\* the key a mapped key of the record is read from
ReadKey(f) == (CHOOSE m \in FieldMap : m[1] = f)[2]

\* the structure created for a site_id not seen before
JpNewSite(cid, sid, page) ==
    [f \in JpKeys |->
        CASE f = "school_id" -> cid
          [] f = "site_id" -> sid
          [] f = "url_en" -> Get(page, "url_en", <<>>)
          [] f = "url_jp" -> Get(page, "url_jp", <<>>)
          [] OTHER -> <<>>]

\* lines 186-207: every mapped key and structured_data are assigned
JpMapFields(site_obj, page) ==
    [f \in DOMAIN site_obj |->
        IF \E m \in FieldMap : m[1] = f
        THEN Get(page, ReadKey(f), <<>>)
        ELSE IF f = "structured_data" THEN Get(page, "details", <<>>)
        ELSE site_obj[f]]

\* add_sub_page gets past its two early returns and indexes
\* site_obj["content"], which raises KeyError when the record has no such key
JpAddSubPageRaises(site_obj, page_data) ==
    /\ Strip(page_data) # <<>>
    /\ is_clean_text(page_data)
    /\ "content" \notin DOMAIN site_obj

\* add_staff_member gets past its early return and indexes
\* site_obj["content"]
JpAddStaffMemberRaises(site_obj, name, role) ==
    /\ Strip(name) # <<>> /\ Strip(role) # <<>>
    /\ "content" \notin DOMAIN site_obj

\* lines 210-217 raise: the sub-page call does, or the call for a member of
\* the staff list does
JpRaises(site_obj, page) ==
    \/ JpAddSubPageRaises(site_obj, Get(page, "data", <<>>))
    \/ LET staff == Get(page, "staff", <<>>)
       IN  \E k \in 1..Len(staff) :
               JpAddStaffMemberRaises(site_obj, Get(staff[k], "name", <<>>),
                                      Get(staff[k], "role", <<>>))

JpHasKey(agg, sid) == \E k \in 1..Len(agg) : agg[k]["site_id"] = sid
JpKeyIndex(agg, sid) == CHOOSE k \in 1..Len(agg) : agg[k]["site_id"] = sid

\* lines 99-207 on a record that is not skipped
JpFoldPage(agg, cid, page) ==
    LET sid == JpSiteId(page)
        agg1 == IF JpHasKey(agg, sid) THEN agg
                ELSE Append(agg, JpNewSite(cid, sid, page))
        k == JpKeyIndex(agg1, sid)
    IN  [agg1 EXCEPT ![k] = JpMapFields(agg1[k], page)]

\* The school records the bilingual aggregator is run on.
U1  == <<"h", "/", "s", "1">>
U1q == <<"q", "/", "s", "1">>
U2  == <<"h", "/", "s", "2">>
UDir == <<"h", "/">>
D1 == <<"f", "1">>
D2 == <<"f", "2">>
StaffNR == <<[name |-> <<78>>, role |-> <<82>>]>>
StaffBlank == <<[name |-> <<32>>, role |-> <<82>>], [role |-> <<82>>]>>

JpPages ==
    {[url |-> U1, name |-> <<"A">>, fees |-> <<"F">>, details |-> D1],
     [url |-> U1, name |-> <<"B">>],
     [url |-> U1q, name |-> <<"A">>, name_en |-> <<"E">>, details |-> D2],
     [url |-> U2, name |-> <<"C">>, fees |-> <<"G">>],
     [url |-> UDir, name |-> <<"A">>],
     [name |-> <<"A">>],
     [url |-> <<>>, name |-> <<"A">>],
     [url |-> U2, name |-> <<"C">>, staff |-> StaffNR],
     [url |-> U1, name |-> <<"B">>, staff |-> StaffBlank],
     [url |-> U2, name |-> <<"C">>, title |-> <<"T">>, data |-> CleanA],
     [url |-> U1, name |-> <<"B">>, data |-> Blank],
     [url |-> U1, name |-> <<"B">>, data |-> Dirty9]}

InitJp ==
    /\ jp_pages = <<>>
    /\ jp_aggregated = <<>>
    /\ current_id = 1
    /\ jpc = "fold"
    /\ IdleCrawl /\ IdleAgg /\ IdleMain /\ IdleDetails /\ IdleClean

\* JpSkip that uses up a school_id
JpSkipConsumesId ==
    /\ jpc = "fold"
    /\ Len(jp_pages) < MaxInput
    /\ \E page \in JpPages :
        /\ JpSkipped(page)
        /\ jp_pages' = Append(jp_pages, page)
    /\ current_id' = current_id + 1
    /\ UNCHANGED <<jp_aggregated, jpc, crawlVars, aggVars, mainVars,
                   detailVars, cleanVars>>

\* a record without usable url: print and continue
JpSkip ==
    /\ jpc = "fold"
    /\ Len(jp_pages) < MaxInput
    /\ \E page \in JpPages :
        /\ JpSkipped(page)
        /\ jp_pages' = Append(jp_pages, page)
    /\ UNCHANGED <<jp_aggregated, current_id, jpc, crawlVars, aggVars,
                   mainVars, detailVars, cleanVars>>

\* the loop body on a record with a site_id, lines 99-217 without exception
JpFold ==
    /\ jpc = "fold"
    /\ Len(jp_pages) < MaxInput
    /\ \E page \in JpPages :
        /\ ~JpSkipped(page)
        /\ jp_pages' = Append(jp_pages, page)
        /\ jp_aggregated' = JpFoldPage(jp_aggregated, current_id, page)
        /\ current_id' = IF JpHasKey(jp_aggregated, JpSiteId(page))
                         THEN current_id ELSE current_id + 1
        /\ ~JpRaises(jp_aggregated'[JpKeyIndex(jp_aggregated',
                                                JpSiteId(page))], page)
    /\ UNCHANGED <<jpc, crawlVars, aggVars, mainVars, detailVars, cleanVars>>

\* the loop body on a record with a site_id: lines 99-207 run, then
\* add_sub_page or add_staff_member raises KeyError('content')
JpKeyError ==
    /\ jpc = "fold"
    /\ Len(jp_pages) < MaxInput
    /\ \E page \in JpPages :
        /\ ~JpSkipped(page)
        /\ jp_pages' = Append(jp_pages, page)
        /\ jp_aggregated' = JpFoldPage(jp_aggregated, current_id, page)
        /\ current_id' = IF JpHasKey(jp_aggregated, JpSiteId(page))
                         THEN current_id ELSE current_id + 1
        /\ JpRaises(jp_aggregated'[JpKeyIndex(jp_aggregated',
                                               JpSiteId(page))], page)
    /\ jpc' = "raised"
    /\ UNCHANGED <<crawlVars, aggVars, mainVars, detailVars, cleanVars>>

\* the input is exhausted: return aggregated
JpFinish ==
    /\ jpc = "fold"
    /\ jpc' = "done"
    /\ UNCHANGED <<jp_pages, jp_aggregated, current_id, crawlVars, aggVars,
                   mainVars, detailVars, cleanVars>>

NextJp == JpSkip \/ JpFold \/ JpKeyError \/ JpFinish

SpecJp == InitJp /\ [][NextJp]_vars

(***************************************************************************)
(* international_schools_scraper.py: get_school_details and its caller     *)
(* update_schools_with_details.  A school is a function from the keys it   *)
(* has to their values.                                                    *)
(***************************************************************************)
\* the longest list of schools
MaxSchools == 4

\* max_retries = 3
max_retries == 3

\* retry_delay = 5
InitialRetryDelay == 5

\* (i + 1) % 3 == 0
SaveEvery == 3

\* The schools of the file: one without details, one with details, one
\* whose details are the empty dict, and one without url.
SchoolRecords ==
    {[name |-> <<"A">>, url |-> U1],
     [name |-> <<"B">>, url |-> U2, details |-> D1],
     [name |-> <<"C">>, url |-> U1q, details |-> <<>>],
     [name |-> <<"D">>]}

\* What a call that got a response returns: None without the panel group,
\* or the dict of the panels, which may be empty.
ParsedDetails == {None, <<>>, D1, D2}

\* if details / school['details']: neither None nor the empty dict
Truthy(d) == d \notin {None, <<>>}

\* 'url' in school and 'details' in school and school['details']
HasDetails(school) ==
    /\ "url" \in DOMAIN school
    /\ "details" \in DOMAIN school /\ Truthy(school["details"])

\* school['details'] = details, on the school at position i
SetDetails(list, i, d) ==
    [list EXCEPT ![i] =
        [k \in DOMAIN list[i] \cup {"details"} |->
            IF k = "details" THEN d ELSE list[i][k]]]

\* lines 217-220 for the school at position i: the file after the iteration
SaveProgress(file, list, i) == IF i % SaveEvery = 0 THEN list ELSE file

\* retry_delay that stays as it is
NextDelayConstant(d) == d

\* retry_delay *= 2
NextDelay(d) == d * 2

InitDetails ==
    /\ schools \in UNION {[1..n -> SchoolRecords] : n \in 0..MaxSchools}
    /\ school_index = 0
    /\ attempts = <<>>
    /\ retry_delay = 0
    /\ slept = <<>>
    /\ details = None
    /\ saved = schools
    /\ dpc = "loop"
    /\ IdleCrawl /\ IdleAgg /\ IdleMain /\ IdleJp /\ IdleClean

\* a school that already has details: continue, which also passes over the
\* saving of lines 217-220
SkipSchool ==
    /\ dpc = "loop" /\ school_index < Len(schools)
    /\ HasDetails(schools[school_index + 1])
    /\ school_index' = school_index + 1
    /\ UNCHANGED <<schools, attempts, retry_delay, slept, details, saved,
                   dpc, crawlVars, aggVars, mainVars, jpVars, cleanVars>>

\* a school without url: only lines 217-220 run
NoUrlSchool ==
    /\ dpc = "loop" /\ school_index < Len(schools)
    /\ "url" \notin DOMAIN schools[school_index + 1]
    /\ saved' = SaveProgress(saved, schools, school_index + 1)
    /\ school_index' = school_index + 1
    /\ UNCHANGED <<schools, attempts, retry_delay, slept, details, dpc,
                   crawlVars, aggVars, mainVars, jpVars, cleanVars>>

\* the call get_school_details(school['url']), up to the retry loop
CallDetails ==
    /\ dpc = "loop" /\ school_index < Len(schools)
    /\ "url" \in DOMAIN schools[school_index + 1]
    /\ ~HasDetails(schools[school_index + 1])
    /\ attempts' = <<>>
    /\ retry_delay' = InitialRetryDelay
    /\ slept' = <<>>
    /\ dpc' = "fetch"
    /\ UNCHANGED <<schools, school_index, details, saved, crawlVars, aggVars,
                   mainVars, jpVars, cleanVars>>

\* an attempt raises RequestException and is not the last: sleep, double
AttemptFailsRetry ==
    /\ dpc = "fetch"
    /\ Len(attempts) < max_retries - 1
    /\ attempts' = Append(attempts, "error")
    /\ slept' = Append(slept, retry_delay)
    /\ retry_delay' = NextDelay(retry_delay)
    /\ UNCHANGED <<schools, school_index, details, saved, dpc, crawlVars,
                   aggVars, mainVars, jpVars, cleanVars>>

\* the last attempt raises RequestException: get_school_details returns
\* None; the caller pauses and saves when due
AttemptFailsLast ==
    /\ dpc = "fetch"
    /\ Len(attempts) = max_retries - 1
    /\ attempts' = Append(attempts, "error")
    /\ details' = None
    /\ saved' = SaveProgress(saved, schools, school_index + 1)
    /\ school_index' = school_index + 1
    /\ dpc' = "loop"
    /\ UNCHANGED <<schools, retry_delay, slept, crawlVars, aggVars, mainVars,
                   jpVars, cleanVars>>

\* an attempt gets a response: break, parse, return; the caller stores
\* details that are not empty, pauses and saves when due
AttemptSucceeds ==
    /\ dpc = "fetch"
    /\ Len(attempts) < max_retries
    /\ attempts' = Append(attempts, "ok")
    /\ \E d \in ParsedDetails :
        /\ details' = d
        /\ schools' = IF Truthy(d)
                      THEN SetDetails(schools, school_index + 1, d)
                      ELSE schools
    /\ saved' = SaveProgress(saved, schools', school_index + 1)
    /\ school_index' = school_index + 1
    /\ dpc' = "loop"
    /\ UNCHANGED <<retry_delay, slept, crawlVars, aggVars, mainVars, jpVars,
                   cleanVars>>

\* an attempt gets a response whose panel heading has no <i> followed by a
\* string: line 163 raises, and nothing catches it
DetailsParseRaises ==
    /\ dpc = "fetch"
    /\ Len(attempts) < max_retries
    /\ attempts' = Append(attempts, "ok")
    /\ dpc' = "raised"
    /\ UNCHANGED <<schools, school_index, retry_delay, slept, details, saved,
                   crawlVars, aggVars, mainVars, jpVars, cleanVars>>

\* the list is exhausted: the final save
FinalSave ==
    /\ dpc = "loop" /\ school_index = Len(schools)
    /\ saved' = schools
    /\ dpc' = "done"
    /\ UNCHANGED <<schools, school_index, attempts, retry_delay, slept,
                   details, crawlVars, aggVars, mainVars, jpVars, cleanVars>>

NextDetails ==
    \/ SkipSchool \/ NoUrlSchool \/ CallDetails \/ AttemptFailsRetry
    \/ AttemptFailsLast \/ AttemptSucceeds \/ DetailsParseRaises
    \/ FinalSave

SpecDetails == InitDetails /\ [][NextDetails]_vars

(***************************************************************************)
(* Properties of crawl_website.                                            *)
(***************************************************************************)
\* no element occurs twice in the sequence
NoRepeats(s) == \A i, j \in 1..Len(s) : s[i] = s[j] => i = j

\* C1: at most max_pages URLs are visited, no URL is fetched more than once
\* (the fetched URLs are exactly the visited ones), and a pop of a URL that is
\* already visited fetches nothing and leaves the visited set as it is.
C1_VisitedBounded ==
    /\ [](pc # "idle" =>
            /\ Cardinality(visited) <= max_pages
            /\ NoRepeats(fetched)
            /\ Range(fetched) = visited)
    /\ [][(pc = "loop" /\ to_visit # <<>> /\ Head(to_visit) \in visited)
            => (fetched' = fetched /\ visited' = visited
                /\ results' = results)]_vars

\* C1 witness: the page bound is reached after three visits while a URL that
\* is already visited still sits in the frontier.
C1_Witness ==
    /\ max_pages = 3
    /\ Cardinality(visited) = 3
    /\ \E k \in 1..Len(to_visit) : to_visit[k] \in visited

\* C2: a step that records a page appends to the frontier exactly the links
\* of that page that start with the seed URL and are not visited then, in
\* the order of the page; and every URL in the frontier or in the visited
\* set starts with the seed URL.
C2_EnqueueScoped ==
    /\ [](pc # "idle" =>
            \A u \in Range(to_visit) \cup visited :
                /\ Len(base_url) <= Len(u)
                /\ \A k \in 1..Len(base_url) : u[k] = base_url[k])
    /\ [][results' # results =>
            to_visit' = Tail(to_visit) \o
                SelectSeq(html'.links,
                          LAMBDA l : StartsWith(l, base_url)
                                     /\ l \notin visited')]_vars

\* C2 witness: the seed page x/a links to x/a/b and to y/c; only x/a/b is in
\* the frontier.
C2_Witness ==
    /\ base_url = XA
    /\ Len(results) = 1
    /\ results[1].links = <<XAB, YC>>
    /\ to_visit = <<XAB>>

\* C3: the crawl ends, and when crawl_website returns, the frontier is empty
\* or exactly max_pages URLs are visited.
C3_Terminates ==
    /\ <>(pc \in {"done", "raised"})
    /\ [](pc = "done" =>
            (to_visit = <<>> \/ Cardinality(visited) = max_pages))

\* C3 witness: the crawl of a site whose pages link back to the seed has
\* returned at the page bound with URLs left in the frontier.
C3_Witness ==
    /\ pc = "done"
    /\ max_pages = 3
    /\ Cardinality(visited) = 3
    /\ to_visit # <<>>
    /\ \E k \in 1..Len(results) : base_url \in Range(results[k].links)

\* C4: a step in which the fetch fails adds no page record, enqueues no link,
\* puts the URL into the visited set, where it counts, and goes on with the
\* loop; and no URL is fetched twice.
C4_FailedFetch ==
    /\ [][(fetched' # fetched /\ html'.body \in {"none", "empty"}) =>
            /\ results' = results
            /\ to_visit' = Tail(to_visit)
            /\ Head(to_visit) \notin visited
            /\ visited' = visited \cup {Head(to_visit)}
            /\ Cardinality(visited') = Cardinality(visited) + 1
            /\ pc' = "loop"]_vars
    /\ [](pc # "idle" => NoRepeats(fetched))

\* C4 witness: the second fetch of a crawl has failed; its URL is visited, has
\* no page record, and the frontier still holds an entry to go on with.
C4_Witness ==
    /\ pc = "loop"
    /\ Len(fetched) = 2
    /\ html.body = "none"
    /\ current_url = fetched[2]
    /\ current_url \in visited
    /\ \A k \in 1..Len(results) : results[k].url # current_url
    /\ to_visit # <<>>

\* C5: the k-th page record of the list has the id "<site_id>-k".
C5_ConsecutiveIds ==
    pc # "idle" =>
        \A k \in 1..Len(results) :
            results[k].id = site_id \o <<"-">> \o IntToStr(k)

(***************************************************************************)
(* Properties of aggregate_pages.  What the input determines is computed   *)
(* here from raw_pages alone and compared with the dict.                   *)
(***************************************************************************)
\* the distinct elements of a sequence, in the order of their first occurrence
RECURSIVE FirstSeen(_)
FirstSeen(s) ==
    IF s = <<>> THEN <<>>
    ELSE LET front == FirstSeen(SubSeq(s, 1, Len(s) - 1))
         IN  IF s[Len(s)] \in Range(front) THEN front
             ELSE Append(front, s[Len(s)])

\* the site key of a page record of the input
KeyOf(page) == SiteKey(Get(page, "id", <<>>))

\* the pages of the input that belong to a site, in input order
GroupOf(pages, key) == SelectSeq(pages, LAMBDA p : KeyOf(p) = key)

\* the keys of the dict, in its order
KeysOf(agg) == [k \in 1..Len(agg) |-> agg[k].source.id]

\* the data of the sub_pages entries, in their order
DataOf(sub_pages) == [k \in 1..Len(sub_pages) |-> sub_pages[k].data]

\* the number of characters outside the allowed set
InvalidCount(data) ==
    Cardinality({k \in 1..Len(data) : ~ValidChar(data[k])})

\* empty or whitespace-only
IsBlank(data) == \A k \in 1..Len(data) : IsSpace(data[k])

\* data that add_sub_page is to keep
Accepted(data) ==
    /\ ~IsBlank(data)
    /\ 10 * InvalidCount(data) <= Len(data)

\* C6: the dict holds exactly one record per distinct site key of the input,
\* also for a site none of whose pages gave a sub-page, and the records are
\* in the order in which the keys first occur in the input.
C6_OneRecordPerKey ==
    apc # "idle" =>
        KeysOf(aggregated) =
            FirstSeen([k \in 1..Len(raw_pages) |-> KeyOf(raw_pages[k])])

\* C6 witness: three records of the keys "2", "1", "2" folded, giving the
\* records of "2" and "1" in this order, the one of "2" without sub-pages.
C6_Witness ==
    /\ apc = "done"
    /\ Len(raw_pages) = 3
    /\ KeyOf(raw_pages[3]) = KeyOf(raw_pages[1])
    /\ KeysOf(aggregated) = <<I2, <<"1">> >>
    /\ aggregated[1].content.sub_pages = <<>>

\* the non-empty scrapedAt values of a site's pages
StampsOf(pages, key) ==
    {Get(pages[k], "scrapedAt", <<>>) :
        k \in {j \in 1..Len(pages) : KeyOf(pages[j]) = key}} \ {<<>>}

\* C7: source.scrapedAt of every site is the smallest, in string order, of the
\* non-empty scrapedAt values of the site's pages, and is empty exactly when
\* there is none.
C7_EarliestScrapedAt ==
    apc # "idle" =>
        \A k \in 1..Len(aggregated) :
            LET stamps == StampsOf(raw_pages, aggregated[k].source.id)
                at == aggregated[k].source.scrapedAt
            IN  IF stamps = {} THEN at = <<>>
                ELSE /\ at \in stamps
                     /\ \A t \in stamps : at = t \/ StrLess(at, t)

\* C7 witness: a site whose pages came with the timestamps "2", "" and "10"
\* in this order has the source.scrapedAt "10".
C7_Witness ==
    /\ apc = "done"
    /\ Len(raw_pages) = 3
    /\ \A k \in 1..3 : KeyOf(raw_pages[k]) = <<"1">>
    /\ Get(raw_pages[1], "scrapedAt", <<>>) = <<"2">>
    /\ Get(raw_pages[2], "scrapedAt", <<>>) = <<>>
    /\ Get(raw_pages[3], "scrapedAt", <<>>) = <<"1", "0">>
    /\ aggregated[1].source.scrapedAt = <<"1", "0">>

\* C8: aggregating the input followed by itself gives the same sites with the
\* same sub_pages as aggregating the input once.
C8_TwiceIsOnce ==
    apc # "idle" =>
        LET twice == aggregate_pages(raw_pages \o raw_pages)
        IN  /\ Len(twice) = Len(aggregated)
            /\ \A k \in 1..Len(twice) :
                /\ twice[k].source.id = aggregated[k].source.id
                /\ twice[k].content.sub_pages =
                       aggregated[k].content.sub_pages

\* C8 witness: an input of three pages with kept data, one of them repeating
\* the data of another, has been aggregated.
C8_Witness ==
    /\ apc = "done"
    /\ Len(raw_pages) = 3
    /\ \A k \in 1..3 : Accepted(Get(raw_pages[k], "data", <<>>))
    /\ \E k \in 1..Len(aggregated) :
           Len(aggregated[k].content.sub_pages) = 2
    /\ Get(raw_pages[1], "data", <<>>) = Get(raw_pages[3], "data", <<>>)
    /\ KeyOf(raw_pages[1]) = KeyOf(raw_pages[3])

\* C9: no sub_pages entry has data that is empty or whitespace-only, or data
\* with more than 10% of its characters outside the allowed set.
C9_OnlyCleanSubPages ==
    apc # "idle" =>
        \A k \in 1..Len(aggregated) :
            \A j \in 1..Len(aggregated[k].content.sub_pages) :
                LET data == aggregated[k].content.sub_pages[j].data
                IN  /\ data # <<>>
                    /\ \E c \in Range(data) : ~IsSpace(c)
                    /\ 10 * InvalidCount(data) <= Len(data)

\* C9 witness: a whitespace-only page, a page with 1 invalid character in 9
\* and a page with 1 in 10 were folded into one site, which has the last one
\* as its only sub-page.
C9_Witness ==
    /\ Len(raw_pages) = 3
    /\ Get(raw_pages[1], "data", <<>>) = Blank
    /\ Get(raw_pages[2], "data", <<>>) = Dirty9
    /\ Get(raw_pages[3], "data", <<>>) = Edge10
    /\ Len(aggregated) = 1
    /\ DataOf(aggregated[1].content.sub_pages) = <<Edge10>>

\* the sub_pages entry a page is to give
EntryOf(page) ==
    [title |-> Get(page, "title", Untitled), data |-> Get(page, "data", <<>>)]

\* C10: the data of a site's sub_pages are the distinct kept data values of
\* the site's pages in the order of their first occurrence; and when the
\* data of the site's pages are kept and pairwise distinct, sub_pages has
\* the entry of each page, in input order.
C10_SubPagesInInputOrder ==
    apc # "idle" =>
        \A k \in 1..Len(aggregated) :
            LET group == GroupOf(raw_pages, aggregated[k].source.id)
                datas == [j \in 1..Len(group) |-> Get(group[j], "data", <<>>)]
                sub_pages == aggregated[k].content.sub_pages
            IN  /\ DataOf(sub_pages) =
                       FirstSeen(SelectSeq(datas, Accepted))
                /\ ((\A j \in 1..Len(datas) : Accepted(datas[j]))
                      /\ NoRepeats(datas))
                    => sub_pages = [j \in 1..Len(group) |-> EntryOf(group[j])]

\* C10 witness: three pages of one site with three different kept bodies gave
\* three sub-pages.
C10_Witness ==
    /\ apc = "done"
    /\ Len(raw_pages) = 3
    /\ Len(aggregated) = 1
    /\ DataOf(aggregated[1].content.sub_pages) \in
           {<<CleanA, CleanB, Edge10>>, <<Edge10, CleanA, CleanB>>}

\* the position, in a site's group, of the page the source fields are to
\* come from: the first page with the smallest non-empty scrapedAt, or the
\* first page when no page has a scrapedAt
SourcePage(group) ==
    LET stamp(j) == Get(group[j], "scrapedAt", <<>>)
        stamped == {j \in 1..Len(group) : stamp(j) # <<>>}
    IN  IF stamped = {} THEN 1
        ELSE CHOOSE j \in stamped :
                 \A i \in stamped :
                     /\ ~StrLess(stamp(i), stamp(j))
                     /\ i < j => stamp(i) # stamp(j)

\* C18: in every state of the aggregation, source.url, source.title and
\* source.scrapedAt of a site are those of one page of its group: the first
\* page with the smallest non-empty scrapedAt, or the first page of the group
\* when none has a scrapedAt.
C18_SourceFromOnePage ==
    apc # "idle" =>
        \A k \in 1..Len(aggregated) :
            LET group == GroupOf(raw_pages, aggregated[k].source.id)
                from == group[SourcePage(group)]
            IN  /\ aggregated[k].source.url = Get(from, "url", <<>>)
                /\ aggregated[k].source.title = Get(from, "title", <<>>)
                /\ aggregated[k].source.scrapedAt =
                       Get(from, "scrapedAt", <<>>)

\* C18 witness: a later page with an earlier timestamp replaced all three
\* fields, and a third page with the same timestamp, another url and another
\* title replaced none.
C18_Witness ==
    /\ apc = "done"
    /\ Len(raw_pages) = 3
    /\ \A k \in 1..3 : KeyOf(raw_pages[k]) = <<"1">>
    /\ Get(raw_pages[1], "scrapedAt", <<>>) = <<"2">>
    /\ Get(raw_pages[2], "scrapedAt", <<>>) = <<"1", "0">>
    /\ Get(raw_pages[3], "scrapedAt", <<>>) = <<"1", "0">>
    /\ Get(raw_pages[2], "title", <<>>) = None
    /\ Get(raw_pages[3], "title", <<>>) = <<"T">>
    /\ Get(raw_pages[3], "url", <<>>) = UrlOf(I12)
    /\ aggregated[1].source =
           [id |-> <<"1">>, url |-> UrlOf(I11), title |-> None,
            scrapedAt |-> <<"1", "0">>]

\* s is a prefix of t
IsPrefix(s, t) == Len(s) <= Len(t) /\ SubSeq(t, 1, Len(s)) = s

\* C19: folding a page removes nothing: every site present before the step
\* is present after it at the same place, and its sub_pages before the step
\* are a prefix of its sub_pages after it; and in every state no two
\* sub_pages entries of a site have equal data.
C19_FoldingIsAdditive ==
    /\ [][apc # "idle" =>
            \A k \in 1..Len(aggregated) :
                /\ k <= Len(aggregated')
                /\ aggregated'[k].source.id = aggregated[k].source.id
                /\ IsPrefix(aggregated[k].content.sub_pages,
                            aggregated'[k].content.sub_pages)]_vars
    /\ [](apc # "idle" =>
            \A k \in 1..Len(aggregated) :
                NoRepeats(DataOf(aggregated[k].content.sub_pages)))

\* C19 witness: a site got a sub-page, a second site was created, and a
\* further page of the first site added a second sub-page to it.
C19_Witness ==
    /\ apc = "fold"
    /\ Len(raw_pages) = 3
    /\ Len(aggregated) = 2
    /\ KeyOf(raw_pages[1]) = aggregated[1].source.id
    /\ KeyOf(raw_pages[2]) = aggregated[2].source.id
    /\ KeyOf(raw_pages[3]) = aggregated[1].source.id
    /\ Len(aggregated[1].content.sub_pages) = 2
    /\ Len(aggregated[2].content.sub_pages) = 1

\* C20: is_clean_text returns True exactly for a text that is not empty and
\* in which 10 times the number of characters outside the allowed set is at
\* most the number of characters, so that exactly 10% is clean and anything
\* above is not; and add_sub_page keeps exactly the clean texts that are not
\* blank.
C20_CleanAtTenPercent ==
    LET invalid ==
            Cardinality({k \in 1..Len(text) :
                ~(\/ text[k] \in 12352..12543 \/ text[k] \in 19968..40959
                  \/ text[k] \in 65280..65519 \/ text[k] \in 32..126
                  \/ text[k] \in {9, 10, 13})})
        clean == text # <<>> /\ 10 * invalid <= Len(text)
    IN  /\ verdict # "unset" => (verdict = "True" <=> clean)
        /\ kept # "unset" => (kept = "True" <=> (clean /\ ~IsBlank(text)))

\* C20 witness: a text of ten characters of which one is outside the allowed
\* set was found clean and became a sub-page.
C20_Witness ==
    /\ text = Edge10
    /\ verdict = "True"
    /\ kept = "True"

\* the first position of x in the sequence s
FirstIndex(s, x) ==
    CHOOSE k \in 1..Len(s) : s[k] = x /\ \A j \in 1..(k - 1) : s[j] # x

\* C21: of two visited URLs, the one that was put on the frontier first was
\* visited first, and the page records are in the order of the visits.
C21_BreadthFirst ==
    pc # "idle" =>
        /\ \A u, v \in visited :
              FirstIndex(enqueued, u) < FirstIndex(enqueued, v)
                  => FirstIndex(fetched, u) < FirstIndex(fetched, v)
        /\ \A a, b \in 1..Len(results) :
              a < b => FirstIndex(fetched, results[a].url)
                           < FirstIndex(fetched, results[b].url)

\* C21 witness: the seed page linked to x/ac and then to x/a/b, the page
\* x/ac linked back to the seed and again to x/a/b, and the three pages were
\* visited and recorded in the order seed, x/ac, x/a/b.
C21_Witness ==
    /\ pc = "done"
    /\ enqueued = <<XA, XAc, XAB, XAB>>
    /\ fetched = <<XA, XAc, XAB>>
    /\ [k \in 1..Len(results) |-> results[k].url] = <<XA, XAc, XAB>>

\* C23: the title of every sub_pages entry is the title of the page that
\* gave it (the first page of the site with that data) when that page has a
\* title, and "Untitled" when it has none, be it that the record has no
\* title key or that the crawler recorded the title None.
C23_UntitledFallback ==
    apc # "idle" =>
        \A k \in 1..Len(aggregated) :
            LET group == GroupOf(raw_pages, aggregated[k].source.id)
                sub_pages == aggregated[k].content.sub_pages
            IN  \A e \in 1..Len(sub_pages) :
                    LET from == group[CHOOSE j \in 1..Len(group) :
                                    /\ Get(group[j], "data", <<>>)
                                           = sub_pages[e].data
                                    /\ \A i \in 1..(j - 1) :
                                           Get(group[i], "data", <<>>)
                                               # sub_pages[e].data]
                    IN  sub_pages[e].title =
                            IF "title" \in DOMAIN from /\ from["title"] # None
                            THEN from["title"]
                            ELSE Untitled

\* the part of an id after its last "-"
RECURSIVE AfterLastDash(_)
AfterLastDash(s) ==
    IF s = <<>> \/ s[Len(s)] = "-" THEN <<>>
    ELSE Append(AfterLastDash(SubSeq(s, 1, Len(s) - 1)), s[Len(s)])

\* the value of a decimal digit
DigitValue(c) ==
    CASE c = "0" -> 0 [] c = "1" -> 1 [] c = "2" -> 2 [] c = "3" -> 3
      [] c = "4" -> 4 [] c = "5" -> 5 [] c = "6" -> 6 [] c = "7" -> 7
      [] c = "8" -> 8 [] c = "9" -> 9

\* int(s) of a string of decimal digits
RECURSIVE StrToInt(_)
StrToInt(s) ==
    IF s = <<>> THEN 0
    ELSE 10 * StrToInt(SubSeq(s, 1, Len(s) - 1)) + DigitValue(s[Len(s)])

\* the sequence part of the id of the k-th page record
SequencePart(k) == StrToInt(AfterLastDash(results[k].id))

\* C25: the sequence parts of the ids of the page records increase strictly
\* along the list (so they are pairwise distinct), each is a number between
\* 1 and max_pages, the list has at most max_pages records, and no two
\* records have the same url.
C25_SequencePartsIncrease ==
    pc # "idle" =>
        /\ \A k \in 1..Len(results) :
              /\ AfterLastDash(results[k].id) # <<>>
              /\ Range(AfterLastDash(results[k].id)) \subseteq
                     {"0", "1", "2", "3", "4", "5", "6", "7", "8", "9"}
              /\ 1 <= SequencePart(k) /\ SequencePart(k) <= max_pages
        /\ \A a, b \in 1..Len(results) :
              a < b => /\ SequencePart(a) < SequencePart(b)
                       /\ results[a].url # results[b].url
        /\ Len(results) <= max_pages

\* C25 witness: a crawl of at most 3 pages for the site id "t-i" returned
\* two records, with the sequence parts 1 and 3.
C25_Witness ==
    /\ pc = "done"
    /\ site_id = <<"t", "-", "i">>
    /\ max_pages = 3
    /\ Len(results) = 2
    /\ SequencePart(1) = 1
    /\ SequencePart(2) = 3

\* the URLs of S and the seed-prefixed links of the page records of the
\* URLs of S
ReachStep(S) ==
    S \cup {l \in Urls :
              \E k \in 1..Len(results) :
                  /\ results[k].url \in S
                  /\ l \in Range(results[k].links)
                  /\ StartsWith(l, base_url)}

\* the URLs reachable from S through chains of such links
RECURSIVE ReachFrom(_)
ReachFrom(S) == IF ReachStep(S) = S THEN S ELSE ReachFrom(ReachStep(S))

\* the crawl has returned with fewer than max_pages visited URLs
ReturnedBelowLimit == pc = "done" /\ Cardinality(visited) < max_pages

\* the last call of fetch_page got a response (with or without a body)
LastFetchSucceeded == fetched # <<>> /\ html.body # "none"

\* the last call of fetch_page got a response with a body
LastFetchNonEmpty == fetched # <<>> /\ html.body = "markup"

\* the results hold a page record for the URL fetched last
LastFetchedHasRecord ==
    \E k \in 1..Len(results) : results[k].url = fetched[Len(fetched)]

\* C26: when the crawl has returned with fewer than max_pages visited URLs,
\* every URL reachable from the seed through seed-prefixed links of the
\* extracted pages is visited, and a URL whose fetch succeeded (here the one
\* fetched last) has a page record in the results.
C26_Complete ==
    ReturnedBelowLimit =>
        /\ ReachFrom({base_url}) \subseteq visited
        /\ LastFetchSucceeded => LastFetchedHasRecord

\* What the code does: the reachable URLs are all visited, and a URL has a
\* page record when its fetch returned a body that is not empty.
CompleteForNonEmptyBodies ==
    ReturnedBelowLimit =>
        /\ ReachFrom({base_url}) \subseteq visited
        /\ LastFetchNonEmpty => LastFetchedHasRecord

(***************************************************************************)
(* Properties of the crawl driver and of the crawl-to-aggregate pipeline.  *)
(***************************************************************************)
\* the id of the entry a call of crawl_website was made for
SeedIdOf(call) == sites[call.entry].id

\* C11: when the driver has written its output and aggregate_pages is run on
\* it, every page record of the crawl of an accepted entry is folded into the
\* aggregated record whose source.id is the entry's id, and page records of
\* the crawls of two entries with different ids are never folded into the
\* same record.
C11_GroupedBySeedId ==
    mpc = "done" =>
        LET agg == aggregate_pages(all_results)
        IN  /\ \A c \in 1..Len(crawled) :
                  \A j \in 1..Len(crawled[c].pages) :
                      /\ KeyOf(crawled[c].pages[j]) = SeedIdOf(crawled[c])
                      /\ \E k \in 1..Len(agg) :
                             agg[k].source.id = SeedIdOf(crawled[c])
            /\ \A c, d \in 1..Len(crawled) :
                  SeedIdOf(crawled[c]) # SeedIdOf(crawled[d]) =>
                      \A i \in 1..Len(crawled[c].pages),
                         j \in 1..Len(crawled[d].pages) :
                          KeyOf(crawled[c].pages[i])
                              # KeyOf(crawled[d].pages[j])

\* the page records of a list of calls, one call after the other
RECURSIVE ConcatPages(_)
ConcatPages(calls) ==
    IF calls = <<>> THEN <<>>
    ELSE calls[1].pages \o ConcatPages(Tail(calls))

\* the positions up to n of the entries that have a non-empty id and url
RECURSIVE AcceptedUpTo(_)
AcceptedUpTo(n) ==
    IF n = 0 THEN <<>>
    ELSE IF /\ "id" \in DOMAIN sites[n] /\ sites[n]["id"] # <<>>
            /\ "url" \in DOMAIN sites[n] /\ sites[n]["url"] # <<>>
         THEN Append(AcceptedUpTo(n - 1), n)
         ELSE AcceptedUpTo(n - 1)

\* C17: of the entries the driver has passed, exactly those with a non-empty
\* id and url were crawled, once each and in list order; the collected
\* records are the concatenation of the crawls' results in that order, and
\* the output is written only when every entry was passed; each crawl starts
\* from its entry alone, whatever the entries before it were or gave.
C17_SkipsAndConcatenates ==
    /\ [](mpc # "idle" =>
            /\ [c \in 1..Len(crawled) |-> crawled[c].entry] =
                   AcceptedUpTo(site_index)
            /\ all_results = ConcatPages(crawled)
            /\ mpc = "done" => site_index = Len(sites)
            /\ mpc = "crawl" => site_index + 1 \in Range(AcceptedUpTo(Len(sites))))
    /\ [][(mpc = "loop" /\ mpc' = "crawl") =>
            /\ site_id' = sites[site_index + 1]["id"]
            /\ base_url' = sites[site_index + 1]["url"]
            /\ to_visit' = <<base_url'>>
            /\ visited' = {} /\ results' = <<>> /\ fetched' = <<>>
            /\ all_results' = all_results]_vars

\* C17 witness: an entry without id, a site whose seed fetch failed and a
\* site that gave a record; the output holds the records of the third.
C17_Witness ==
    /\ mpc = "done"
    /\ Len(sites) = 3
    /\ "id" \notin DOMAIN sites[1]
    /\ Len(crawled) = 2
    /\ crawled[1].pages = <<>>
    /\ crawled[2].pages # <<>>
    /\ all_results = crawled[2].pages

(***************************************************************************)
(* Properties of the bilingual aggregator.                                 *)
(***************************************************************************)
\* the records of the input that belong to a school, in input order
JpGroupOf(pages, sid) ==
    SelectSeq(pages, LAMBDA p : ~JpSkipped(p) /\ JpSiteId(p) = sid)

\* the records of a list that have the key
Having(pages, key) == SelectSeq(pages, LAMBDA p : key \in DOMAIN p)

\* C12: while the aggregation runs normally, each mapped flat field of a
\* school's record holds the value of the last record of the school's group
\* that has the field's input key; a later record without the key does not
\* erase it.
C12_LastContainingWins ==
    jpc \in {"fold", "done"} =>
        \A k \in 1..Len(jp_aggregated) :
            \A m \in FieldMap :
                LET having == Having(JpGroupOf(jp_pages,
                                  jp_aggregated[k]["site_id"]), m[2])
                IN  having # <<>> =>
                        jp_aggregated[k][m[1]] = having[Len(having)][m[2]]

\* C13: while the aggregation runs normally, structured_data of a school's
\* record is the details of the last record of the group that has details,
\* and is empty only when no record of the group has details.
C13_DetailsKept ==
    jpc \in {"fold", "done"} =>
        \A k \in 1..Len(jp_aggregated) :
            LET having == Having(JpGroupOf(jp_pages,
                              jp_aggregated[k]["site_id"]), "details")
            IN  jp_aggregated[k]["structured_data"] =
                    IF having = <<>> THEN <<>>
                    ELSE having[Len(having)]["details"]

\* the staff entries of a record that have a non-empty name and role
ValidStaff(page) ==
    SelectSeq(Get(page, "staff", <<>>),
              LAMBDA e : /\ ~IsBlank(Get(e, "name", <<>>))
                         /\ ~IsBlank(Get(e, "role", <<>>)))

\* the list add_staff_member appends to
StaffListOf(site_obj) ==
    IF "content" \in DOMAIN site_obj
    THEN site_obj["content"]["structured_data"]["staff"]["staff_list"]
    ELSE <<>>

\* C14: a record whose staff has an entry with non-empty name and role, and
\* that gives no sub-page, is folded without an exception; every such entry
\* of a school's records is in the school's staff list, and the list holds
\* no (name, role) pair twice.
C14_StaffFolded ==
    jpc # "idle" =>
        /\ \A j \in 1..Len(jp_pages) :
              (/\ ~JpSkipped(jp_pages[j])
               /\ ValidStaff(jp_pages[j]) # <<>>
               /\ IsBlank(Get(jp_pages[j], "data", <<>>)))
              => /\ ~(j = Len(jp_pages) /\ jpc = "raised")
                 /\ LET sid == JpSiteId(jp_pages[j])
                        list == StaffListOf(
                            jp_aggregated[JpKeyIndex(jp_aggregated, sid)])
                    IN  Range(ValidStaff(jp_pages[j])) \subseteq Range(list)
        /\ \A k \in 1..Len(jp_aggregated) :
              NoRepeats(StaffListOf(jp_aggregated[k]))

\* the list add_sub_page appends to
SubPagesOf(site_obj) ==
    IF "content" \in DOMAIN site_obj
    THEN site_obj["content"]["sub_pages"]
    ELSE <<>>

\* C22: a record of the bilingual input that is not skipped and whose data
\* is not blank and is clean is folded without an exception, and its data is
\* then among the sub_pages entries of its school, once; a record whose data
\* is empty adds no entry.
C22_JpSubPageAppended ==
    jpc # "idle" =>
        /\ \A j \in 1..Len(jp_pages) :
              LET data == Get(jp_pages[j], "data", <<>>)
              IN  (/\ ~JpSkipped(jp_pages[j])
                   /\ ~IsBlank(data)
                   /\ 10 * InvalidCount(data) <= Len(data))
                  => /\ ~(j = Len(jp_pages) /\ jpc = "raised")
                     /\ LET sid == JpSiteId(jp_pages[j])
                            sub_pages == SubPagesOf(
                                jp_aggregated[JpKeyIndex(jp_aggregated, sid)])
                        IN  /\ data \in Range(DataOf(sub_pages))
                            /\ NoRepeats(DataOf(sub_pages))
        /\ \A k \in 1..Len(jp_aggregated) :
              (\A p \in Range(JpGroupOf(jp_pages,
                                        jp_aggregated[k]["site_id"])) :
                   Get(p, "data", <<>>) = <<>>)
              => SubPagesOf(jp_aggregated[k]) = <<>>

\* C15: the records have the school_ids 1..n in the order in which their
\* site_ids first occur among the records that are not skipped, the next id
\* is n + 1, and a record whose url is missing, empty or ends with "/" is
\* skipped.
C15_SequentialSchoolIds ==
    jpc # "idle" =>
        LET used == SelectSeq(jp_pages,
                        LAMBDA p : /\ "url" \in DOMAIN p
                                   /\ p["url"] # <<>>
                                   /\ p["url"][Len(p["url"])] # "/")
            ids == FirstSeen([j \in 1..Len(used) |-> SplitLast(used[j]["url"])])
        IN  /\ Len(jp_aggregated) = Len(ids)
            /\ \A k \in 1..Len(jp_aggregated) :
                  /\ jp_aggregated[k]["school_id"] = k
                  /\ jp_aggregated[k]["site_id"] = ids[k]
            /\ current_id = Len(ids) + 1

\* C15 witness: a skipped record between the first records of two schools,
\* which got the ids 1 and 2.
C15_Witness ==
    /\ jpc = "done"
    /\ Len(jp_pages) = 3
    /\ ~JpSkipped(jp_pages[1]) /\ JpSkipped(jp_pages[2])
    /\ ~JpSkipped(jp_pages[3])
    /\ Len(jp_aggregated) = 2
    /\ jp_aggregated[2]["school_id"] = 2

(***************************************************************************)
(* Properties of get_school_details.                                       *)
(***************************************************************************)
\* the attempts of the current call that failed
Failures == SelectSeq(attempts, LAMBDA a : a = "error")

\* 2 to the power n
RECURSIVE Pow2(_)
Pow2(n) == IF n = 0 THEN 1 ELSE 2 * Pow2(n - 1)

\* C16 as stated: a call makes at most 3 attempts and none after a
\* successful one, it has waited 5 * 2^(k-1) seconds after the k-th failed
\* attempt for every failed attempt (5, 10, 20), and after the third failed
\* attempt it has returned None.
C16_WaitAfterEveryFailure ==
    dpc # "idle" =>
        /\ Len(attempts) <= 3
        /\ \A k \in 1..(Len(attempts) - 1) : attempts[k] = "error"
        /\ slept = [k \in 1..Len(Failures) |-> 5 * Pow2(k - 1)]
        /\ Len(Failures) = 3 => (dpc # "fetch" /\ details = None)

\* C16 amended: a call makes at most 3 attempts and none after a successful
\* one, it has waited 5 seconds after the first failed attempt and 10
\* seconds after the second, and after the third failed attempt it has
\* returned None without a further wait.
C16_WaitBetweenAttempts ==
    dpc # "idle" =>
        /\ Len(attempts) <= 3
        /\ \A k \in 1..(Len(attempts) - 1) : attempts[k] = "error"
        /\ slept = [k \in 1..(IF Len(Failures) < 3 THEN Len(Failures) ELSE 2)
                      |-> 5 * Pow2(k - 1)]
        /\ Len(Failures) = 3 => (dpc # "fetch" /\ details = None)

\* C16 witness: three attempts failed, the call waited 5 and 10 seconds and
\* returned None.
C16_Witness ==
    /\ dpc = "loop"
    /\ attempts = <<"error", "error", "error">>
    /\ slept = <<5, 10>>
    /\ details = None

(***************************************************************************)
(* Properties of update_schools_with_details.                              *)
(***************************************************************************)
\* a school without its details
WithoutDetails(school) ==
    [k \in DOMAIN school \ {"details"} |-> school[k]]

\* the school has details that are not empty
Enriched(school) ==
    "details" \in DOMAIN school /\ school["details"] \notin {None, <<>>}

\* list a holds the schools of list b in their order, each with the details
\* it has in b or without details yet
SameSchools(a, b) ==
    /\ Len(a) = Len(b)
    /\ \A i \in 1..Len(a) :
          /\ WithoutDetails(a[i]) = WithoutDetails(b[i])
          /\ Enriched(a[i]) => a[i] = b[i]

\* What C24 says apart from the times of the writes: a fetch is under way
\* only for a school with url and without details; no step changes a school
\* that has details, the length or order of the list, or anything but the
\* details of a school; the step of the third failed attempt changes no
\* school; and the file always holds every school of the list, in order.
C24_NonDestructive ==
    /\ [](dpc = "fetch" =>
            /\ "url" \in DOMAIN schools[school_index + 1]
            /\ ~Enriched(schools[school_index + 1]))
    /\ [](dpc # "idle" => SameSchools(saved, schools))
    /\ [][dpc # "idle" =>
            /\ SameSchools(schools, schools')
            /\ (Len(attempts') = 3 /\ Len(attempts) = 2
                /\ attempts'[3] = "error") => schools' = schools
            /\ saved' # saved => saved' = schools']_vars

\* C24 as stated: the above, and the whole list is written after every third
\* list position and at the end.
C24_WriteAfterEveryThird ==
    /\ C24_NonDestructive
    /\ [][(/\ dpc # "idle"
           /\ \/ (school_index' = school_index + 1 /\ school_index' % 3 = 0)
              \/ (dpc' = "done" /\ dpc # "done"))
          => saved' = schools']_vars

\* What the code does about the times of the writes: the whole list is
\* written after every third list position whose school was not passed over
\* for having details already, and at the end; the file changes at no other
\* time.
WriteAfterThirdUnlessSkipped ==
    /\ [][(/\ dpc # "idle"
           /\ \/ /\ school_index' = school_index + 1
                 /\ school_index' % 3 = 0
                 /\ ~(/\ "url" \in DOMAIN schools[school_index']
                      /\ Enriched(schools[school_index']))
              \/ (dpc' = "done" /\ dpc # "done"))
          => saved' = schools']_vars
    /\ [][(dpc # "idle" /\ saved' # saved) =>
            \/ (school_index' = school_index + 1 /\ school_index' % 3 = 0)
            \/ dpc' = "done"]_vars

====
